---- MODULE Spec2Model ----
(***************************************************************************)
(* Model of the tileset loading pipeline of bevy_tileset_core:             *)
(*   tileset/load.rs   load_tile_handles and its helpers                   *)
(*   tileset/asset.rs  TilesetTextureLoader, TilesetTextureStore,          *)
(*                     TilesetAssetLoader::load, load_image                *)
(* One behaviour is one run of TilesetAssetLoader::load on one tileset     *)
(* file.  Every .await of load and every loop iteration is one action.     *)
(***************************************************************************)
EXTENDS Integers, Sequences, FiniteSets, TLC

\* Number of group ids a TilesetDef may use (its keys are drawn from 1..MaxGroup).
MaxGroup == 2

GroupIds == 1..MaxGroup

(***************************************************************************)
(* The asset directory the runs read from.                                 *)
(***************************************************************************)

\* load_context.path() of the tileset being loaded, and its parent()
TilesetPath == "tilesets/main.ron"
TilesetParent == "tilesets"

Std(p) == [tag |-> "Standard", path |-> p]
Anim(s, fs) == [tag |-> "Animated", anim |-> [speed |-> s, frames |-> fs]]
Var(vs) == [tag |-> "Variant", variants |-> vs]
Auto(as) == [tag |-> "Auto", autos |-> as]
Weighted(w, t) == [weight |-> w, tile |-> t]
Rule(r, vs) == [rule |-> r, variants |-> vs]

\* Tile definition paths a TilesetDef may name (relative to the tileset file,
\* the last one absolute).
DefPaths ==
  {"std.ron", "std2.ron", "anim.ron", "lossy.ron", "var.ron", "auto.ron",
   "noext.ron", "missing.ron", "broken.ron", "/abs/std3.ron"}

IsAbsolute(p) == p = "/abs/std3.ron"

\* Definition files that cannot be read, and files that are not a TileDef.
UnreadableDefs == {"tilesets/missing.ron"}
InvalidDefs == {"tilesets/broken.ron"}

\* The TileDef each readable, well-formed definition file holds.
DefFile(p) ==
  CASE p = "tilesets/std.ron" -> [name |-> "grass", tile |-> Std("a.png")]
    [] p = "tilesets/std2.ron" -> [name |-> "dirt", tile |-> Std("b.png")]
    [] p = "/abs/std3.ron" -> [name |-> "sand", tile |-> Std("c.png")]
    [] p = "tilesets/anim.ron" ->
         [name |-> "water", tile |-> Anim(2, <<"a.png", "c.png", "a.png">>)]
    [] p = "tilesets/lossy.ron" ->
         [name |-> "lava", tile |-> Anim(3, <<"b.png", "gone.png">>)]
    [] p = "tilesets/var.ron" ->
         [name |-> "rock",
          tile |-> Var(<<Weighted(1, Std("a.png#x")),
                         Weighted(3, Anim(1, <<"c.png">>))>>)]
    [] p = "tilesets/auto.ron" ->
         [name |-> "wall",
          tile |-> Auto(<<Rule("r1", <<Weighted(1, Std("b.png"))>>),
                          Rule("r2", <<Weighted(2, Std("bad.png")),
                                       Weighted(1, Anim(1, <<>>))>>)>>)]
    [] p = "tilesets/noext.ron" -> [name |-> "void", tile |-> Std("noext")]

\* Image files: unreadable, not decodable, without a file extension.
UnreadableImages == {"gone.png"}
UndecodableImages == {"bad.png"}
NoExtension == {"noext"}

(***************************************************************************)
(* Paths                                                                   *)
(***************************************************************************)

\* String -> AssetPath: the part after '#' is the label.
AssetPathOf(s) ==
  IF s = "a.png#x" THEN [path |-> "a.png", label |-> "x"]
  ELSE [path |-> s, label |-> ""]

\* AssetPath -> String
AssetPathToString(ap) ==
  IF ap.label = "" THEN ap.path ELSE ap.path \o "#" \o ap.label

\* parent.join(path): an absolute path replaces the parent.
JoinPath(parent, p) == IF IsAbsolute(p) THEN p ELSE parent \o "/" \o p

\* The ascending sequence of a finite set of integers (BTreeMap key order).
RECURSIVE SortedSeq(_)
SortedSeq(S) ==
  IF S = {} THEN <<>>
  ELSE LET m == CHOOSE x \in S : \A y \in S : x <= y
       IN <<m>> \o SortedSeq(S \ {m})

Range(s) == {s[i] : i \in DOMAIN s}

EmptyMap == [k \in {} |-> 0]

\* HashMap::insert
MapInsert(m, k, v) == [x \in DOMAIN m \cup {k} |-> IF x = k THEN v ELSE m[x]]

(***************************************************************************)
(* asset.rs: TilesetTextureLoader                                          *)
(* A loader is [labels, bytes, lock, calls]:                               *)
(*   labels  the label handles load_context has handed out; the AssetId of *)
(*           a handle is its position in this sequence                     *)
(*   bytes   the registration table AssetId -> PathBuf behind the RwLock   *)
(*   lock    the state of that RwLock                                      *)
(*   calls   the paths load_texture was called with, in call order         *)
(***************************************************************************)

\* TilesetTextureLoader { bytes: Arc::new(RwLock::new(HashMap::new())), .. }
NewLoader == [labels |-> <<>>, bytes |-> EmptyMap, lock |-> "free", calls |-> <<>>]

\* Faulty get_label_handle: a new handle for every request, also for a label
\* that already has one.
get_label_handle_fresh(labels, label) ==
  [labels |-> Append(labels, label), id |-> Len(labels) + 1]

\* LoadContext::get_label_handle: the handle of a label is created on the
\* first request and the same handle is returned for the label afterwards.
get_label_handle(labels, label) ==
  IF \E i \in DOMAIN labels : labels[i] = label
  THEN [labels |-> labels,
        id |-> CHOOSE i \in DOMAIN labels : labels[i] = label]
  ELSE [labels |-> Append(labels, label), id |-> Len(labels) + 1]

\* RwLock::try_write succeeds when no guard is held.
try_write(lock) == lock = "free"

\* Faulty load_texture: a path already in the table is not registered again,
\* whatever identity it is requested under.
load_texture_once_per_path(L, path) ==
  LET asset_path == AssetPathOf(path)
      got == get_label_handle(L.labels, AssetPathToString(asset_path))
      images == IF /\ try_write(L.lock)
                   /\ \A id \in DOMAIN L.bytes : L.bytes[id] # asset_path.path
                THEN MapInsert(L.bytes, got.id, asset_path.path)
                ELSE L.bytes
  IN [loader |-> [labels |-> got.labels, bytes |-> images, lock |-> L.lock,
                  calls |-> Append(L.calls, path)],
      out |-> got.id]

\* TilesetTextureLoader::load_texture
load_texture(L, path) ==
  LET asset_path == AssetPathOf(path)
      got == get_label_handle(L.labels, AssetPathToString(asset_path))
      images == IF try_write(L.lock)
                THEN MapInsert(L.bytes, got.id, asset_path.path)
                ELSE L.bytes
  IN [loader |-> [labels |-> got.labels, bytes |-> images, lock |-> L.lock,
                  calls |-> Append(L.calls, path)],
      out |-> got.id]

(***************************************************************************)
(* load.rs: every function threads the loader through the map it runs,     *)
(* returning [loader, out].  An intermediate result is bound once, as the  *)
(* element of a singleton set, and then used.                              *)
(***************************************************************************)

The(S) == CHOOSE x \in S : TRUE

\* frames.iter().map(|frame| asset_loader.load_texture(frame)).collect()
RECURSIVE load_frames(_, _)
load_frames(frames, L) ==
  IF frames = <<>> THEN [loader |-> L, out |-> <<>>]
  ELSE The({The({[loader |-> rest.loader, out |-> <<h.out>> \o rest.out] :
                   rest \in {load_frames(Tail(frames), h.loader)}}) :
              h \in {load_texture(L, Head(frames))}})

\* Faulty load_animated: the last frame is left out.
load_animated_truncated(def, L) ==
  The({[loader |-> fs.loader, out |-> [speed |-> def.speed, frames |-> fs.out]] :
         fs \in {load_frames(SubSeq(def.frames, 1, Len(def.frames) - 1), L)}})

load_animated(def, L) ==
  The({[loader |-> fs.loader, out |-> [speed |-> def.speed, frames |-> fs.out]] :
         fs \in {load_frames(def.frames, L)}})

load_variant(def, L) ==
  IF def.tile.tag = "Standard"
  THEN The({[loader |-> h.loader,
             out |-> [weight |-> def.weight,
                      tile |-> [tag |-> "Standard", handle |-> h.out]]] :
              h \in {load_texture(L, def.tile.path)}})
  ELSE The({[loader |-> a.loader,
             out |-> [weight |-> def.weight,
                      tile |-> [tag |-> "Animated", anim |-> a.out]]] :
              a \in {load_animated(def.tile.anim, L)}})

\* variants.iter().map(|variant| load_variant(variant, asset_loader)).collect()
RECURSIVE load_variants(_, _)
load_variants(variants, L) ==
  IF variants = <<>> THEN [loader |-> L, out |-> <<>>]
  ELSE The({The({[loader |-> rest.loader, out |-> <<v.out>> \o rest.out] :
                   rest \in {load_variants(Tail(variants), v.loader)}}) :
              v \in {load_variant(Head(variants), L)}})

load_auto(def, L) ==
  The({[loader |-> vs.loader, out |-> [rule |-> def.rule, variants |-> vs.out]] :
         vs \in {load_variants(def.variants, L)}})

\* autos.iter().map(|auto| load_auto(auto, asset_loader)).collect()
RECURSIVE load_autos(_, _)
load_autos(autos, L) ==
  IF autos = <<>> THEN [loader |-> L, out |-> <<>>]
  ELSE The({The({[loader |-> rest.loader, out |-> <<a.out>> \o rest.out] :
                   rest \in {load_autos(Tail(autos), a.loader)}}) :
              a \in {load_auto(Head(autos), L)}})

\* The match of load_tile_handles: the tile of one TileDef to a TileHandleType.
load_tile_type(t, L) ==
  CASE t.tag = "Standard" ->
         The({[loader |-> h.loader,
               out |-> [tag |-> "Standard", handle |-> h.out]] :
                h \in {load_texture(L, t.path)}})
    [] t.tag = "Animated" ->
         The({[loader |-> a.loader, out |-> [tag |-> "Animated", anim |-> a.out]] :
                a \in {load_animated(t.anim, L)}})
    [] t.tag = "Variant" ->
         The({[loader |-> vs.loader,
               out |-> [tag |-> "Variant", variants |-> vs.out]] :
                vs \in {load_variants(t.variants, L)}})
    [] t.tag = "Auto" ->
         The({[loader |-> as.loader, out |-> [tag |-> "Auto", autos |-> as.out]] :
                as \in {load_autos(t.autos, L)}})

\* The closure of load_tile_handles: one TileDef to one TileHandle.
load_tile_handle(tile_def, L) ==
  The({[loader |-> r.loader, out |-> [name |-> tile_def.name, tile |-> r.out]] :
         r \in {load_tile_type(tile_def.tile, L)}})

RECURSIVE load_tile_handles(_, _)
load_tile_handles(tiles, L) ==
  IF tiles = <<>> THEN [loader |-> L, out |-> <<>>]
  ELSE The({The({[loader |-> rest.loader, out |-> <<h.out>> \o rest.out] :
                   rest \in {load_tile_handles(Tail(tiles), h.loader)}}) :
              h \in {load_tile_handle(Head(tiles), L)}})

(***************************************************************************)
(* asset.rs: load_image                                                    *)
(***************************************************************************)

\* The decoded pixels of an image file.
Image(path) == [pixels |-> path]

\* load_image: Err when the bytes cannot be read, a panic on
\* path.extension().unwrap() when the path has no extension, Err when the
\* bytes do not decode, Ok((id, img)) otherwise.
load_image(id, path) ==
  IF path \in UnreadableImages
  THEN [kind |-> "Err", error |-> "ReadAssetBytesError", id |-> id]
  ELSE IF path \in NoExtension
  THEN [kind |-> "Panic", id |-> id]
  ELSE IF path \in UndecodableImages
  THEN [kind |-> "Err", error |-> "ImageError", id |-> id]
  ELSE [kind |-> "Ok", id |-> id, image |-> Image(path)]

(***************************************************************************)
(* asset.rs: the collect of lines 200-205                                  *)
(***************************************************************************)

\* Faulty collect: each image is keyed by its position among the loaded
\* images instead of the identity it was loaded for.
RECURSIVE collect_images_by_position(_, _)
collect_images_by_position(image_map, acc) ==
  IF image_map = <<>> THEN acc
  ELSE LET x == Head(image_map)
       IN collect_images_by_position(
            Tail(image_map),
            IF x.kind = "Ok"
            THEN MapInsert(acc, Cardinality(DOMAIN acc) + 1, x.image)
            ELSE acc)

\* Faulty collect: the images after the first failed load are left out.
RECURSIVE collect_images_until_err(_, _)
collect_images_until_err(image_map, acc) ==
  IF image_map = <<>> \/ Head(image_map).kind # "Ok" THEN acc
  ELSE collect_images_until_err(
         Tail(image_map),
         MapInsert(acc, Head(image_map).id, Head(image_map).image))

\* image_map.into_iter().filter_map(|x| x.ok())
\*     .map(|(asset_id, image)| (Handle::Weak(asset_id), image)).collect()
RECURSIVE collect_images(_, _)
collect_images(image_map, acc) ==
  IF image_map = <<>> THEN acc
  ELSE LET x == Head(image_map)
       IN collect_images(Tail(image_map),
                         IF x.kind = "Ok" THEN MapInsert(acc, x.id, x.image)
                         ELSE acc)

\* Faulty zip: the second sequence is taken from its end.
ZipReversed(a, b) ==
  LET n == IF Len(a) <= Len(b) THEN Len(a) ELSE Len(b)
  IN [i \in 1..n |-> <<a[i], b[Len(b) + 1 - i]>>]

\* a.zip(b).collect(): pairs up to the shorter of the two
Zip(a, b) ==
  LET n == IF Len(a) <= Len(b) THEN Len(a) ELSE Len(b)
  IN [i \in 1..n |-> <<a[i], b[i]>>]

\* TilesetTextureStore::add: the image becomes a labeled asset of the load
\* context under a label made of the tileset path and a fresh UUID.
store_add(labeled, asset) ==
  LET label == "Tileset__[" \o TilesetPath \o "]__uuid"
  IN [labeled |-> Append(labeled, label), handle |-> label]

(***************************************************************************)
(* TilesetBuilder (crate::tileset::builder)                                *)
(***************************************************************************)

\* The resource identities at the leaves of a TileHandle, in structural order.
RECURSIVE VariantHandleLeaves(_)
VariantHandleLeaves(vs) ==
  IF vs = <<>> THEN <<>>
  ELSE (IF Head(vs).tile.tag = "Standard" THEN <<Head(vs).tile.handle>>
        ELSE Head(vs).tile.anim.frames) \o VariantHandleLeaves(Tail(vs))

RECURSIVE AutoHandleLeaves(_)
AutoHandleLeaves(as) ==
  IF as = <<>> THEN <<>>
  ELSE VariantHandleLeaves(Head(as).variants) \o AutoHandleLeaves(Tail(as))

HandleLeaves(h) ==
  CASE h.tile.tag = "Standard" -> <<h.tile.handle>>
    [] h.tile.tag = "Animated" -> h.tile.anim.frames
    [] h.tile.tag = "Variant" -> VariantHandleLeaves(h.tile.variants)
    [] h.tile.tag = "Auto" -> AutoHandleLeaves(h.tile.autos)

TilesetBuilderDefault ==
  [tile_ids |-> <<>>, tile_names |-> EmptyMap, tile_handles |-> EmptyMap,
   tile_indices |-> EmptyMap, tiles |-> <<>>, atlas |-> <<>>]

\* The atlas after the leaves that have a decoded image are added to it, each
\* identity at most once.
RECURSIVE atlas_add(_, _, _)
atlas_add(atlas, leaves, images) ==
  IF leaves = <<>> THEN atlas
  ELSE LET id == Head(leaves)
       IN atlas_add(IF id \in DOMAIN images /\ id \notin Range(atlas)
                    THEN Append(atlas, id) ELSE atlas,
                    Tail(leaves), images)

\* The placement of each leaf that has a decoded image; a leaf without one is
\* skipped.
RECURSIVE placements(_, _)
placements(atlas, leaves) ==
  IF leaves = <<>> THEN <<>>
  ELSE (IF Head(leaves) \in Range(atlas)
        THEN <<(CHOOSE i \in DOMAIN atlas : atlas[i] = Head(leaves)) - 1>>
        ELSE <<>>) \o placements(atlas, Tail(leaves))

\* TilesetBuilder::add_tile
add_tile(B, tile_handle, group_id, images) ==
  IF group_id \in Range(B.tile_ids)
  THEN [kind |-> "Err", error |-> "DuplicateId"]
  ELSE LET atlas == atlas_add(B.atlas, HandleLeaves(tile_handle), images)
       IN [kind |-> "Ok",
           builder |->
             [tile_ids |-> Append(B.tile_ids, group_id),
              tile_names |-> MapInsert(B.tile_names, group_id, tile_handle.name),
              tile_handles |-> MapInsert(B.tile_handles, group_id, tile_handle),
              tile_indices |-> MapInsert(B.tile_indices, group_id, Len(B.tile_ids)),
              tiles |-> Append(B.tiles, placements(atlas, HandleLeaves(tile_handle))),
              atlas |-> atlas]]

\* TilesetBuilder::build: the atlas is finished and its texture added to the
\* store once.
build(B, name, id, labeled) ==
  LET tex == store_add(labeled, B.atlas)
  IN [labeled |-> tex.labeled,
      raw_tileset |->
        [id |-> id, name |-> name, tiles |-> B.tiles,
         size |-> Len(B.atlas), tile_size |-> "tile_size",
         tile_ids |-> B.tile_ids, tile_names |-> B.tile_names,
         tile_handles |-> B.tile_handles, tile_indices |-> B.tile_indices,
         atlas |-> [texture |-> tex.handle, textures |-> B.atlas]]]

(***************************************************************************)
(* asset.rs: TilesetAssetLoader::load                                      *)
(***************************************************************************)

VARIABLES
  pc,           \* where load is: start, read_defs, snapshot, load_images,
                \* add_tiles, finalize, done, failed, panicked
  root,         \* the tileset file given to load
  definition,   \* the parsed TilesetDef
  tile_defs,    \* Vec<TileDef>
  cursor,       \* position of the definition.tiles iterator (1-based)
  loader,       \* TilesetTextureLoader
  tile_handles, \* Vec<(TileGroupId, TileHandle)>
  images,       \* the clone of loader.bytes taken at line 193
  pending,      \* the entries of images not iterated yet
  image_map,    \* Vec<Result<(AssetId, Image), TilesetError>>
  store,        \* TilesetTextureStore.images
  builder,      \* TilesetBuilder
  added,        \* the number of tile_handles entries given to add_tile
  raw_tileset,  \* what builder.build returned
  labeled,      \* the labels given to load_context.add_labeled_asset
  reads,        \* the definition files read_asset_bytes was asked for
  loads,        \* the identities load_image was called with
  adds,         \* the (group id, handle) pairs builder.add_tile was called with
  result        \* what load returned

vars == <<pc, root, definition, tile_defs, cursor, loader, tile_handles, images,
          pending, image_map, store, builder, added, raw_tileset, labeled,
          reads, loads, adds, result>>

NoDefinition == [name |-> "none", id |-> 0, tiles |-> EmptyMap]
NoTileset == [id |-> 0]

\* The tile mappings a TilesetDef may hold.
TileMaps == UNION {[S -> DefPaths] : S \in SUBSET GroupIds}

RootFiles ==
  {[kind |-> "unreadable"], [kind |-> "invalid"]}
  \cup {[kind |-> "def", def |-> [name |-> n, id |-> 7, tiles |-> t]] :
          n \in {"none", "forest"}, t \in TileMaps}

\* definition.tiles.iter(): the keys in ascending order
Keys == SortedSeq(DOMAIN definition.tiles)

Init ==
  /\ pc = "start"
  /\ root \in RootFiles
  /\ definition = NoDefinition
  /\ tile_defs = <<>>
  /\ cursor = 1
  /\ loader = NewLoader
  /\ tile_handles = <<>>
  /\ images = EmptyMap
  /\ pending = {}
  /\ image_map = <<>>
  /\ store = EmptyMap
  /\ builder = TilesetBuilderDefault
  /\ added = 0
  /\ raw_tileset = NoTileset
  /\ labeled = <<>>
  /\ reads = <<>>
  /\ loads = <<>>
  /\ adds = <<>>
  /\ result = [kind |-> "none"]

\* return Err(e)
Fail(e) == pc' = "failed" /\ result' = [kind |-> "Err", error |-> e]

\* lines 153-163
ReadTileset ==
  /\ pc = "start"
  /\ IF root.kind = "unreadable"
     THEN Fail([type |-> "IoError"]) /\ UNCHANGED <<definition, loader>>
     ELSE IF root.kind = "invalid"
     THEN Fail([type |-> "RonError"]) /\ UNCHANGED <<definition, loader>>
     ELSE /\ definition' = root.def
          /\ loader' = NewLoader
          /\ pc' = "read_defs"
          /\ UNCHANGED result
  /\ UNCHANGED <<root, tile_defs, cursor, tile_handles, images, pending,
                 image_map, store, builder, added, raw_tileset, labeled, reads,
                 loads, adds>>

\* Faulty loop body: a definition file that cannot be read or parsed is
\* skipped instead of ending the load.
ReadTileDefSkipping ==
  /\ pc = "read_defs"
  /\ cursor <= Len(Keys)
  /\ LET path == JoinPath(TilesetParent, definition.tiles[Keys[cursor]])
     IN /\ reads' = Append(reads, path)
        /\ tile_defs' = IF path \in UnreadableDefs \cup InvalidDefs
                        THEN tile_defs
                        ELSE Append(tile_defs, DefFile(path))
        /\ cursor' = cursor + 1
  /\ UNCHANGED <<pc, result, root, definition, loader, tile_handles, images,
                 pending, image_map, store, builder, added, raw_tileset, labeled,
                 loads, adds>>

\* lines 167-182: one iteration of the loop over definition.tiles
ReadTileDef ==
  /\ pc = "read_defs"
  /\ cursor <= Len(Keys)
  /\ LET path == JoinPath(TilesetParent, definition.tiles[Keys[cursor]])
     IN /\ reads' = Append(reads, path)
        /\ IF path \in UnreadableDefs
           THEN Fail([type |-> "ReadAssetBytesError", path |-> path])
                /\ UNCHANGED <<tile_defs, cursor>>
           ELSE IF path \in InvalidDefs
           THEN Fail([type |-> "InvalidDefinition", path |-> path])
                /\ UNCHANGED <<tile_defs, cursor>>
           ELSE /\ tile_defs' = Append(tile_defs, DefFile(path))
                /\ cursor' = cursor + 1
                /\ UNCHANGED <<pc, result>>
  /\ UNCHANGED <<root, definition, loader, tile_handles, images, pending,
                 image_map, store, builder, added, raw_tileset, labeled, loads, adds>>

\* lines 183-189
LoadHandles ==
  /\ pc = "read_defs"
  /\ cursor > Len(Keys)
  /\ \E handles \in {load_tile_handles(tile_defs, loader)} :
       /\ loader' = handles.loader
       /\ tile_handles' = Zip(Keys, handles.out)
  /\ pc' = "snapshot"
  /\ UNCHANGED <<root, definition, tile_defs, cursor, images, pending,
                 image_map, store, builder, added, raw_tileset, labeled, reads,
                 loads, result, adds>>

\* lines 193-194: loader.bytes.read().unwrap().clone()
SnapshotImages ==
  /\ pc = "snapshot"
  /\ images' = loader.bytes
  /\ pending' = DOMAIN loader.bytes
  /\ image_map' = <<>>
  /\ pc' = "load_images"
  /\ UNCHANGED <<root, definition, tile_defs, cursor, loader, tile_handles,
                 store, builder, added, raw_tileset, labeled, reads, loads,
                 result, adds>>

\* Faulty loop body: an identity whose load failed stays in the iteration and
\* is loaded again.
LoadImageRetrying ==
  /\ pc = "load_images"
  /\ \E id \in pending :
       LET image == load_image(id, images[id])
       IN /\ loads' = Append(loads, id)
          /\ IF image.kind = "Panic"
             THEN pc' = "panicked" /\ UNCHANGED <<pending, image_map>>
             ELSE /\ image_map' = Append(image_map, image)
                  /\ pending' = IF image.kind = "Ok" THEN pending \ {id}
                                ELSE pending
                  /\ UNCHANGED pc
  /\ UNCHANGED <<root, definition, tile_defs, cursor, loader, tile_handles,
                 images, store, builder, added, raw_tileset, labeled, reads,
                 result, adds>>

\* lines 195-199: one iteration over the cloned HashMap, whose iteration
\* order is arbitrary
LoadImage ==
  /\ pc = "load_images"
  /\ \E id \in pending :
       LET image == load_image(id, images[id])
       IN /\ loads' = Append(loads, id)
          /\ IF image.kind = "Panic"
             THEN pc' = "panicked" /\ UNCHANGED <<pending, image_map>>
             ELSE /\ image_map' = Append(image_map, image)
                  /\ pending' = pending \ {id}
                  /\ UNCHANGED pc
  /\ UNCHANGED <<root, definition, tile_defs, cursor, loader, tile_handles,
                 images, store, builder, added, raw_tileset, labeled, reads,
                 result, adds>>

\* lines 200-211
CollectImages ==
  /\ pc = "load_images"
  /\ pending = {}
  /\ store' = collect_images(image_map, EmptyMap)
  /\ builder' = TilesetBuilderDefault
  /\ pc' = "add_tiles"
  /\ UNCHANGED <<root, definition, tile_defs, cursor, loader, tile_handles,
                 images, pending, image_map, added, raw_tileset, labeled, reads,
                 loads, result, adds>>

\* lines 212-214: one iteration of the loop over tile_handles
AddTile ==
  /\ pc = "add_tiles"
  /\ added < Len(tile_handles)
  /\ LET group_id == tile_handles[added + 1][1]
         tile_handle == tile_handles[added + 1][2]
         r == add_tile(builder, tile_handle, group_id, store)
     IN /\ added' = added + 1
        /\ adds' = Append(adds, <<group_id, tile_handle>>)
        /\ IF r.kind = "Err"
           THEN Fail([type |-> r.error]) /\ UNCHANGED builder
           ELSE builder' = r.builder /\ UNCHANGED <<pc, result>>
  /\ UNCHANGED <<root, definition, tile_defs, cursor, loader, tile_handles,
                 images, pending, image_map, store, raw_tileset, labeled, reads,
                 loads>>

\* lines 217-220
BuildTileset ==
  /\ pc = "add_tiles"
  /\ added = Len(tile_handles)
  /\ LET name == IF definition.name = "none" THEN "uuid" ELSE definition.name
         built == build(builder, name, definition.id, labeled)
     IN /\ raw_tileset' = built.raw_tileset
        /\ labeled' = built.labeled
  /\ pc' = "finalize"
  /\ UNCHANGED <<root, definition, tile_defs, cursor, loader, tile_handles,
                 images, pending, image_map, store, builder, added, reads, loads,
                 result, adds>>

\* Faulty construction: tile_indices is left empty instead of copied.
FinalTilesetNoIndices(raw, atlas, texture) ==
  [id |-> raw.id, name |-> raw.name, tiles |-> raw.tiles, size |-> raw.size,
   tile_size |-> raw.tile_size, tile_ids |-> raw.tile_ids,
   tile_names |-> raw.tile_names, tile_handles |-> raw.tile_handles,
   tile_indices |-> EmptyMap, atlas |-> atlas, texture |-> texture]

\* lines 223-237: the Tileset built from the raw tileset
FinalTileset(raw, atlas, texture) ==
  [id |-> raw.id, name |-> raw.name, tiles |-> raw.tiles, size |-> raw.size,
   tile_size |-> raw.tile_size, tile_ids |-> raw.tile_ids,
   tile_names |-> raw.tile_names, tile_handles |-> raw.tile_handles,
   tile_indices |-> raw.tile_indices, atlas |-> atlas, texture |-> texture]

\* lines 223-239
Finalize ==
  /\ pc = "finalize"
  /\ labeled' = Append(labeled, "atlas")
  /\ result' = [kind |-> "Ok",
                tileset |-> FinalTileset(raw_tileset, "atlas",
                                         raw_tileset.atlas.texture)]
  /\ pc' = "done"
  /\ UNCHANGED <<root, definition, tile_defs, cursor, loader, tile_handles,
                 images, pending, image_map, store, builder, added, raw_tileset,
                 reads, loads, adds>>

Next ==
  \/ ReadTileset
  \/ ReadTileDef
  \/ LoadHandles
  \/ SnapshotImages
  \/ LoadImage
  \/ CollectImages
  \/ AddTile
  \/ BuildTileset
  \/ Finalize

Spec == Init /\ [][Next]_vars

(***************************************************************************)
(* Notions the properties are stated with                                  *)
(***************************************************************************)

\* The image paths at the leaves of a TileDef, in structural order.
RECURSIVE VariantDefLeaves(_)
VariantDefLeaves(vs) ==
  IF vs = <<>> THEN <<>>
  ELSE (IF Head(vs).tile.tag = "Standard" THEN <<Head(vs).tile.path>>
        ELSE Head(vs).tile.anim.frames) \o VariantDefLeaves(Tail(vs))

RECURSIVE AutoDefLeaves(_)
AutoDefLeaves(as) ==
  IF as = <<>> THEN <<>>
  ELSE VariantDefLeaves(Head(as).variants) \o AutoDefLeaves(Tail(as))

DefLeaves(d) ==
  CASE d.tile.tag = "Standard" -> <<d.tile.path>>
    [] d.tile.tag = "Animated" -> d.tile.anim.frames
    [] d.tile.tag = "Variant" -> VariantDefLeaves(d.tile.variants)
    [] d.tile.tag = "Auto" -> AutoDefLeaves(d.tile.autos)

RECURSIVE AllDefLeaves(_)
AllDefLeaves(defs) ==
  IF defs = <<>> THEN <<>> ELSE DefLeaves(Head(defs)) \o AllDefLeaves(Tail(defs))

\* The identities at the leaves of a Vec<(TileGroupId, TileHandle)>, in order.
RECURSIVE AllHandleLeaves(_)
AllHandleLeaves(ths) ==
  IF ths = <<>> THEN <<>>
  ELSE HandleLeaves(Head(ths)[2]) \o AllHandleLeaves(Tail(ths))

\* A TileHandle read back as a TileDef: every identity replaced by the asset
\* path string its handle was requested for.
UnloadAnim(a, labels) ==
  [speed |-> a.speed, frames |-> [i \in DOMAIN a.frames |-> labels[a.frames[i]]]]

UnloadVariants(vs, labels) ==
  [i \in DOMAIN vs |->
     [weight |-> vs[i].weight,
      tile |-> IF vs[i].tile.tag = "Standard"
               THEN [tag |-> "Standard", path |-> labels[vs[i].tile.handle]]
               ELSE [tag |-> "Animated",
                     anim |-> UnloadAnim(vs[i].tile.anim, labels)]]]

Unload(h, labels) ==
  [name |-> h.name,
   tile |->
     CASE h.tile.tag = "Standard" ->
            [tag |-> "Standard", path |-> labels[h.tile.handle]]
       [] h.tile.tag = "Animated" ->
            [tag |-> "Animated", anim |-> UnloadAnim(h.tile.anim, labels)]
       [] h.tile.tag = "Variant" ->
            [tag |-> "Variant",
             variants |-> UnloadVariants(h.tile.variants, labels)]
       [] h.tile.tag = "Auto" ->
            [tag |-> "Auto",
             autos |-> [i \in DOMAIN h.tile.autos |->
                          [rule |-> h.tile.autos[i].rule,
                           variants |-> UnloadVariants(h.tile.autos[i].variants,
                                                       labels)]]]]

\* The stages of load after load_tile_handles returned, after the registration
\* table was cloned, and after the loop over the clone ended.
AfterHandles ==
  pc \in {"snapshot", "load_images", "add_tiles", "finalize", "done", "panicked"}
AfterSnapshot == pc \in {"load_images", "add_tiles", "finalize", "done", "panicked"}
AfterLoading == pc \in {"add_tiles", "finalize", "done"}

\* The tiles mapping of the tileset file, its nth key in ascending order, and
\* the definition file stored under a key.
RootTiles == root.def.tiles
NthKey(n) ==
  CHOOSE k \in DOMAIN RootTiles :
    Cardinality({j \in DOMAIN RootTiles : j < k}) = n - 1
FileOfKey(k) == JoinPath(TilesetParent, RootTiles[k])
BadDef(k) == FileOfKey(k) \in UnreadableDefs \cup InvalidDefs

IsStandard(th) == th[2].tile.tag = "Standard"

(***************************************************************************)
(* Properties                                                              *)
(***************************************************************************)

\* C1: once the handles are zipped, the nth pair holds the nth key of
\* definition.tiles in ascending order together with the handle made from the
\* definition file stored under that key; no key is missing; add_tile receives
\* the pairs in that order, and the finished Tileset gives the nth key index
\* n - 1.
OrderPreservation ==
  AfterHandles =>
    /\ Len(tile_handles) = Cardinality(DOMAIN RootTiles)
    /\ \A n \in DOMAIN tile_handles :
         /\ tile_handles[n][1] = NthKey(n)
         /\ Unload(tile_handles[n][2], loader.labels)
              = DefFile(FileOfKey(NthKey(n)))
    /\ adds = SubSeq(tile_handles, 1, Len(adds))
    /\ pc = "done" =>
         /\ Len(adds) = Len(tile_handles)
         /\ \A n \in DOMAIN tile_handles :
              result.tileset.tile_indices[NthKey(n)] = n - 1

\* C1 witness: a Tileset was built from two tiles of different kinds.
OrderPreservationWitness ==
  /\ pc = "done"
  /\ Len(tile_handles) >= 2
  /\ tile_handles[1][2].tile.tag # tile_handles[2][2].tile.tag

\* C2: the handles load_tile_handles returns are as many as the TileDefs, the
\* ith handle is the ith TileDef with every leaf path replaced by the identity
\* requested for it (same name, tag, sub-elements, order, speed, weight, rule),
\* and load_texture was called once per leaf, in leaf order.
StructuralIsomorphism ==
  AfterHandles =>
    /\ Len(tile_handles) = Len(tile_defs)
    /\ \A i \in DOMAIN tile_handles :
         Unload(tile_handles[i][2], loader.labels) = tile_defs[i]
    /\ loader.calls = AllDefLeaves(tile_defs)
    /\ Len(AllHandleLeaves(tile_handles)) = Len(AllDefLeaves(tile_defs))

\* C2 witness: handles were made for an Auto tile and an Animated tile.
StructuralIsomorphismWitness ==
  /\ pc = "snapshot"
  /\ \E i, j \in DOMAIN tile_handles :
       /\ tile_handles[i][2].tile.tag = "Auto"
       /\ tile_handles[j][2].tile.tag = "Animated"
       /\ Len(tile_handles[j][2].tile.anim.frames) = 3

\* C3, as claimed: a Tileset is returned only when every registered leaf image
\* was fetched and decoded.
NoPartialTileset ==
  result.kind = "Ok" => \A id \in DOMAIN images : id \in DOMAIN store

\* C4: in the returned Tileset, tile_ids holds each group id of the TilesetDef
\* once, tile_indices, tile_handles and tile_names have exactly those keys, the
\* indices are 0..n-1 in tile_ids order, and the tables are the builder's.
TableCorrespondence ==
  pc = "done" =>
    LET ts == result.tileset
        n == Cardinality(DOMAIN RootTiles)
    IN /\ Len(ts.tile_ids) = n
       /\ Range(ts.tile_ids) = DOMAIN RootTiles
       /\ DOMAIN ts.tile_indices = DOMAIN RootTiles
       /\ DOMAIN ts.tile_handles = DOMAIN RootTiles
       /\ DOMAIN ts.tile_names = DOMAIN RootTiles
       /\ {ts.tile_indices[g] : g \in DOMAIN RootTiles} = 0..(n - 1)
       /\ \A i \in DOMAIN ts.tile_ids : ts.tile_indices[ts.tile_ids[i]] = i - 1
       /\ ts.tile_ids = builder.tile_ids
       /\ ts.tile_indices = builder.tile_indices
       /\ ts.tile_handles = builder.tile_handles
       /\ ts.tile_names = builder.tile_names
       /\ ts.atlas = "atlas"

\* C4 witness: a Tileset of two tiles was returned.
TableCorrespondenceWitness ==
  pc = "done" /\ Len(result.tileset.tile_ids) = 2

\* C5: when a definition file named by the tileset cannot be read or parsed,
\* load reads the files in key order up to the first such file and no further,
\* returns the error of that file and no Tileset, and never registers a
\* texture, loads an image or calls the builder.
DefinitionFailureAborts ==
  (root.kind = "def" /\ \E k \in DOMAIN RootTiles : BadDef(k)) =>
    LET first == CHOOSE k \in DOMAIN RootTiles :
                   BadDef(k) /\ \A j \in DOMAIN RootTiles : BadDef(j) => k <= j
        upto == Cardinality({j \in DOMAIN RootTiles : j <= first})
    IN /\ pc \in {"start", "read_defs", "failed"}
       /\ result.kind # "Ok"
       /\ Len(reads) <= upto
       /\ \A i \in DOMAIN reads : reads[i] = FileOfKey(NthKey(i))
       /\ loader.calls = <<>> /\ loader.bytes = EmptyMap
       /\ loads = <<>> /\ adds = <<>> /\ builder = TilesetBuilderDefault
       /\ pc = "failed" =>
            /\ Len(reads) = upto
            /\ result.error.path = FileOfKey(first)
            /\ result.error.type =
                 IF FileOfKey(first) \in UnreadableDefs
                 THEN "ReadAssetBytesError" ELSE "InvalidDefinition"

\* C5 witness: load failed with a read error on the second entry, after the
\* first was read.
DefinitionFailureWitness ==
  /\ pc = "failed"
  /\ Len(reads) = 2
  /\ Cardinality(DOMAIN RootTiles) >= 2
  /\ result.error.type = "ReadAssetBytesError"

\* C6: when the registration table is cloned, every identity at a leaf of a
\* returned TileHandle is a key of the table, mapped to the path of the
\* AssetPath of the leaf it stands for, and every load_texture call returned a
\* handle.
DurableRegistration ==
  AfterSnapshot =>
    LET ids == AllHandleLeaves(tile_handles)
        paths == AllDefLeaves(tile_defs)
    IN /\ Len(ids) = Len(loader.calls)
       /\ Len(ids) = Len(paths)
       /\ \A i \in DOMAIN ids :
            /\ ids[i] \in DOMAIN images
            /\ images[ids[i]] = AssetPathOf(paths[i]).path
       /\ DOMAIN images = Range(ids)

\* C6 witness: the table was cloned after a path was registered three times,
\* twice under the same label.
DurableRegistrationWitness ==
  /\ pc = "load_images"
  /\ \E i, j, k \in DOMAIN loader.calls :
       /\ i < j /\ loader.calls[i] = loader.calls[j]
       /\ loader.calls[k] # loader.calls[i]
       /\ AssetPathOf(loader.calls[k]).path = AssetPathOf(loader.calls[i]).path

\* C7: whatever order the registered identities were loaded in, the decoded
\* image set handed to the builder maps each identity whose file is a good
\* image to the image of its own path, and add_tile is called with the pairs
\* of tile_handles in their order.
CompletionOrderIndependence ==
  AfterLoading =>
    /\ store = [id \in {x \in DOMAIN images :
                          images[x] \notin UnreadableImages \cup UndecodableImages}
                  |-> Image(images[id])]
    /\ adds = SubSeq(tile_handles, 1, Len(adds))
    /\ \A n \in DOMAIN adds :
         IsStandard(adds[n]) /\ adds[n][2].tile.handle \in DOMAIN store =>
           store[adds[n][2].tile.handle]
             = Image(AssetPathOf(tile_defs[n].tile.path).path)

\* C7 witness: a Tileset was built from two Standard tiles whose images were
\* loaded in the reverse of the order they were registered in.
CompletionOrderWitness ==
  /\ pc = "done"
  /\ Len(tile_handles) = 2
  /\ \A n \in DOMAIN tile_handles : IsStandard(tile_handles[n])
  /\ loads = <<2, 1>>
  /\ DOMAIN store = {1, 2}

FreshIdentityPerCall ==
  AfterHandles => Cardinality(DOMAIN loader.bytes) = Len(loader.calls)

\* C10, amended: two load_texture calls yield the same identity exactly when
\* they are given the same path string, so the registration table has one
\* entry per distinct path string.
IdentityPerPathString ==
  AfterHandles =>
    LET ids == AllHandleLeaves(tile_handles)
    IN /\ Len(ids) = Len(loader.calls)
       /\ \A i, j \in DOMAIN ids :
            ids[i] = ids[j] <=> loader.calls[i] = loader.calls[j]
       /\ Cardinality(DOMAIN loader.bytes) = Cardinality(Range(loader.calls))

\* C10 witness: load_texture was called twice with the same path string.
IdentityPerPathStringWitness ==
  /\ pc = "snapshot"
  /\ \E i, j \in DOMAIN loader.calls : i < j /\ loader.calls[i] = loader.calls[j]

====
